---- MODULE Spec2Model ----
(***************************************************************************)
(* live_topstats.py: the CRCON plugin that ranks players and squads on a   *)
(* chat command or at match end, gives VIPs to the top players at match    *)
(* end, and sends the report.                                              *)
(*                                                                         *)
(* Text is modelled structurally: a leaderboard string is the sequence of  *)
(* its "\n"-terminated lines, each line a record of what it prints.        *)
(* Time is counted in ticks (TicksPerSecond per second) since the start of *)
(* the handler; an ISO timestamp with seconds resolution is the number of  *)
(* whole seconds it denotes.                                               *)
(***************************************************************************)
EXTENDS Integers, Sequences, FiniteSets, TLC

VARIABLES
    cfg,              \* the configuration block (lines 18-96)
    snapshot,         \* what rcon.get_team_view() returns
    current_players,  \* rcon.get_status()["current_players"]
    ledger,           \* what rcon.get_vip_ids() returns (the game server's VIP list)
    connected,        \* what rcon.get_playerids() returns
    now,              \* the last value datetime.now(timezone.utc) returned
    pc,               \* where the running handler is
    callmode,         \* "chat" or "matchend"
    chat_player,      \* player_id of the player who typed the command
    buckets,          \* the five lists team_view_stats() returns
    board,            \* which of the nine get_top() calls of stats_gather() runs
    sorted_data,      \* get_top: sorted_data
    idx,              \* get_top: position of the for loop in sorted_data[:tops_limit]
    iteration,        \* get_top: iteration
    output,           \* get_top: output
    pending,          \* the sample give_xh_vip() was called for
    tops,             \* the nine strings stats_gather() returns
    message,          \* the report stats_display() returns
    all_players_list, \* message_all_players: all_players_list
    bidx,             \* message_all_players: position of the for loop
    calls,            \* the rcon calls of the grant engine, in order
    sent              \* the rcon.message_player calls, in order, with their outcome

vars == <<cfg, snapshot, current_players, ledger, connected, now, pc, callmode,
          chat_player, buckets, board, sorted_data, idx, iteration, output,
          pending, tops, message, all_players_list, bidx, calls, sent>>

(***************************************************************************)
(* Bounds of the model                                                     *)
(***************************************************************************)
\* ticks per second: the clock is finer than the seconds an ISO timestamp keeps
TicksPerSecond == 2
\* the clock readings of one handler run lie in 0..MaxNow ticks
MaxNow == 2
\* infantry/armor players in a snapshot
MaxPlayers == 3
\* players rcon.get_playerids() returns
MaxConnected == 2

(***************************************************************************)
(* Program constants                                                       *)
(***************************************************************************)
\* OFFENSEDEFENSE_RATIO = 1.5 and COMBATSUPPORT_RATIO = 1.5, in tenths
OFFENSEDEFENSE_RATIO_TENTHS == 15
COMBATSUPPORT_RATIO_TENTHS == 15
VIP_COMMANDER_MIN_PLAYTIME_MINS == 40
VIP_COMMANDER_MIN_SUPPORT_SCORE == 2000
CHAT_COMMAND == "!top"
ENABLE_ON_SERVERS == {"1"}

\* None where a string is expected, and where a number or a record is
None == "None"
Nothing == <<>>
Some(x) == <<x>>

Min(a, b) == IF a < b THEN a ELSE b
Abs(x) == IF x < 0 THEN -x ELSE x
SecondTicks == TicksPerSecond
MinuteTicks == 60 * TicksPerSecond
HourTicks == 3600 * TicksPerSecond

\* s[:n] of Python
Take(s, n) == SubSeq(s, 1, Min(n, Len(s)))

(***************************************************************************)
(* Metric functions                                                        *)
(***************************************************************************)
\* round(n / d, 1) in tenths, for n >= 0, d > 0.  The stat values the model
\* draws never put n / d half-way between two tenths.
Round1(n, d) == (20 * n + d) \div (2 * d)

\* ratio(obj), in tenths
ratio(obj) ==
    LET deaths == IF obj.deaths = 0 THEN 1 ELSE obj.deaths
    IN  Round1(obj.kills, deaths)

\* real_offdef(obj): int() truncates a non-negative float
real_offdef(obj) ==
    IF OFFENSEDEFENSE_RATIO_TENTHS = 0
    THEN obj.offense * obj.defense
    ELSE (obj.offense * obj.defense * Abs(OFFENSEDEFENSE_RATIO_TENTHS)) \div 10

\* teamplay(obj)
teamplay(obj) ==
    IF COMBATSUPPORT_RATIO_TENTHS = 0
    THEN obj.combat + obj.support
    ELSE (10 * obj.combat + obj.support * Abs(COMBATSUPPORT_RATIO_TENTHS)) \div 10

\* killrate(obj), in tenths: kills / ((offense + defense) / 20)
killrate(obj) ==
    IF obj.kills = 0 THEN 0
    ELSE IF obj.offense = 0 /\ obj.defense = 0 THEN 0
    ELSE Round1(20 * obj.kills, obj.offense + obj.defense)

\* sortkey(sample), the metric function passed to get_top
sortkey(name, sample) ==
    CASE name = "real_offdef" -> real_offdef(sample)
      [] name = "teamplay"    -> teamplay(sample)
      [] name = "ratio"       -> ratio(sample)
      [] name = "killrate"    -> killrate(sample)

(***************************************************************************)
(* sorted(data_bucket, key=sortkey, reverse=True): a stable sort, equal    *)
(* keys keep the order of the input (reverse=True keeps it too)            *)
(***************************************************************************)
\* InsertDesc with equal keys swapped: a sort that is not stable
RECURSIVE InsertDescUnstable(_, _, _)
InsertDescUnstable(s, x, key) ==
    IF s = <<>> THEN <<x>>
    ELSE IF sortkey(key, Head(s)) > sortkey(key, x)
         THEN <<Head(s)>> \o InsertDescUnstable(Tail(s), x, key)
         ELSE <<x>> \o s

RECURSIVE InsertDesc(_, _, _)
InsertDesc(s, x, key) ==
    IF s = <<>> THEN <<x>>
    ELSE IF sortkey(key, Head(s)) >= sortkey(key, x)
         THEN <<Head(s)>> \o InsertDesc(Tail(s), x, key)
         ELSE <<x>> \o s

RECURSIVE sorted(_, _)
sorted(data, key) ==
    IF data = <<>> THEN <<>>
    ELSE InsertDesc(sorted(SubSeq(data, 1, Len(data) - 1), key), data[Len(data)], key)

(***************************************************************************)
(* The snapshot rcon.get_team_view() returns, and its partition            *)
(***************************************************************************)
Teams == <<"allies", "axis">>

\* the records team_view_stats() collects from the squads of one team:
\* squad_data["team"] = team, the players go to the players list of the
\* squad's type, the squad (without "players") to the squads list;
\* stats_gather() then renames {squad: squad_data} to {"name": squad, ...}
SquadRecord(team, sq) ==
    [name |-> sq.name, team |-> team, type |-> sq.type,
     kills |-> sq.kills, deaths |-> sq.deaths, combat |-> sq.combat,
     offense |-> sq.offense, defense |-> sq.defense, support |-> sq.support]

IsInfantry(sq) == sq.type = "infantry" \/ sq.type = "recon"
IsArmor(sq) == sq.type = "armor"

RECURSIVE PlayersOf(_, _)
PlayersOf(squads, armor) ==
    IF squads = <<>> THEN <<>>
    ELSE LET sq == Head(squads)
             mine == IF armor THEN ~IsInfantry(sq) /\ IsArmor(sq) ELSE IsInfantry(sq)
         IN  (IF mine THEN sq.players ELSE <<>>) \o PlayersOf(Tail(squads), armor)

RECURSIVE SquadsOf(_, _, _)
SquadsOf(team, squads, armor) ==
    IF squads = <<>> THEN <<>>
    ELSE LET sq == Head(squads)
             mine == IF armor THEN ~IsInfantry(sq) /\ IsArmor(sq) ELSE IsInfantry(sq)
         IN  (IF mine THEN <<SquadRecord(team, sq)>> ELSE <<>>)
                 \o SquadsOf(team, Tail(squads), armor)

RECURSIVE team_view_stats(_, _)
team_view_stats(get_team_view, t) ==
    IF t > Len(Teams)
    THEN [all_commanders |-> <<>>, all_players_infantry |-> <<>>,
          all_players_armor |-> <<>>, all_squads_infantry |-> <<>>,
          all_squads_armor |-> <<>>]
    ELSE LET team == Teams[t]
             rest == team_view_stats(get_team_view, t + 1)
         IN  IF team \notin DOMAIN get_team_view THEN rest
             ELSE LET tv == get_team_view[team] IN
                  [all_commanders |->
                       (IF tv.commander /= Nothing THEN <<tv.commander[1]>> ELSE <<>>)
                           \o rest.all_commanders,
                   all_players_infantry |->
                       PlayersOf(tv.squads, FALSE) \o rest.all_players_infantry,
                   all_players_armor |->
                       PlayersOf(tv.squads, TRUE) \o rest.all_players_armor,
                   all_squads_infantry |->
                       SquadsOf(team, tv.squads, FALSE) \o rest.all_squads_infantry,
                   all_squads_armor |->
                       SquadsOf(team, tv.squads, TRUE) \o rest.all_squads_armor]

(***************************************************************************)
(* The nine get_top() calls of stats_gather(), in order                    *)
(***************************************************************************)
NumBoards == 9

BoardArgs(k) ==
    CASE k = 1 -> [calltype |-> "player", data_bucket |-> "all_commanders",
                   sortkey |-> "teamplay", second_data |-> "combat",
                   third_data |-> "support", fourth_data |-> "",
                   squadtype_allplayers |-> "all_commanders"]
      [] k = 2 -> [calltype |-> "player", data_bucket |-> "all_players_infantry",
                   sortkey |-> "real_offdef", second_data |-> "offense",
                   third_data |-> "defense", fourth_data |-> "",
                   squadtype_allplayers |-> "all_players_infantry"]
      [] k = 3 -> [calltype |-> "player", data_bucket |-> "all_players_infantry",
                   sortkey |-> "teamplay", second_data |-> "combat",
                   third_data |-> "support", fourth_data |-> "",
                   squadtype_allplayers |-> "all_players_infantry"]
      [] k = 4 -> [calltype |-> "player", data_bucket |-> "all_players_infantry",
                   sortkey |-> "ratio", second_data |-> "kills",
                   third_data |-> "deaths", fourth_data |-> "",
                   squadtype_allplayers |-> "all_players_infantry"]
      [] k = 5 -> [calltype |-> "player", data_bucket |-> "all_players_infantry",
                   sortkey |-> "killrate", second_data |-> "kills",
                   third_data |-> "offense", fourth_data |-> "defense",
                   squadtype_allplayers |-> "all_players_infantry"]
      [] k = 6 -> [calltype |-> "squad", data_bucket |-> "all_squads_infantry",
                   sortkey |-> "real_offdef", second_data |-> "offense",
                   third_data |-> "defense", fourth_data |-> "",
                   squadtype_allplayers |-> "all_players_infantry"]
      [] k = 7 -> [calltype |-> "squad", data_bucket |-> "all_squads_infantry",
                   sortkey |-> "teamplay", second_data |-> "combat",
                   third_data |-> "support", fourth_data |-> "",
                   squadtype_allplayers |-> "all_players_infantry"]
      [] k = 8 -> [calltype |-> "squad", data_bucket |-> "all_squads_armor",
                   sortkey |-> "real_offdef", second_data |-> "offense",
                   third_data |-> "defense", fourth_data |-> "",
                   squadtype_allplayers |-> "all_players_armor"]
      [] k = 9 -> [calltype |-> "squad", data_bucket |-> "all_squads_armor",
                   sortkey |-> "teamplay", second_data |-> "combat",
                   third_data |-> "support", fourth_data |-> "",
                   squadtype_allplayers |-> "all_players_armor"]


(***************************************************************************)
(* Lines of text                                                           *)
(***************************************************************************)
Line(kind, glyph, name, team, vals, names) ==
    [kind |-> kind, glyph |-> glyph, name |-> name, team |-> team,
     vals |-> vals, names |-> names]

\* "{name} ({team}): {second} ; {third}\n" or "{name} ({team}): {sortkey}\n",
\* after "■ " for a squad
EntryLine(glyph, name, team, vals) == Line("entry", glyph, name, team, vals, <<>>)
\* "{'; '.join(best_players_names)}\n"
RosterLine(names) == Line("roster", FALSE, "", "", <<>>, names)
\* "{TRANSL['vip_until']} {local time} !\n"
VipUntilLine(display) == Line("vip_until", FALSE, "", "", <<display>>, <<>>)
\* "{TRANSL['already_vip']}\n"
AlreadyVipLine == Line("already_vip", FALSE, "", "", <<>>, <<>>)
\* a header of the report, an empty line, and the fallback report
HeaderLine(kind, key) == Line(kind, FALSE, key, "", <<>>, <<>>)
BlankLine == Line("blank", FALSE, "", "", <<>>, <<>>)
NoStatsYet == <<Line("nostatsyet", FALSE, "", "", <<>>, <<>>)>>

(***************************************************************************)
(* Timestamps                                                              *)
(***************************************************************************)
\* strftime('%Y-%m-%dT%H:%M:%SZ'): the whole seconds of the time
FormatIso(t) == t \div SecondTicks
\* datetime.fromisoformat(str(item['vip_expiration']))
fromisoformat(text) == text * SecondTicks
\* LOCAL_TIMEZONE = "Brazil/East", three hours behind UTC
LOCAL_UTC_OFFSET_HOURS == -3
\* astimezone(ZoneInfo(LOCAL_TIMEZONE)).strftime(LOCAL_TIME_FORMAT): the
\* whole minutes of the local time
LocalDisplay(t) == (t + LOCAL_UTC_OFFSET_HOURS * HourTicks) \div MinuteTicks

(***************************************************************************)
(* Eligibility and grant engine                                            *)
(***************************************************************************)
\* is_vip_for_less_than_xh(rcon, player_id, vip_delay_hours), with
\* actual_vips what rcon.get_vip_ids() returned and t what datetime.now() returns
RECURSIVE is_vip_for_less_than_xh(_, _, _, _)
is_vip_for_less_than_xh(actual_vips, player_id, vip_delay_hours, t) ==
    IF actual_vips = <<>> THEN TRUE
    ELSE LET item == Head(actual_vips) IN
         IF item.player_id = player_id /\ item.vip_expiration /= Nothing
         THEN fromisoformat(item.vip_expiration[1]) < t + vip_delay_hours * HourTicks
         ELSE is_vip_for_less_than_xh(Tail(actual_vips), player_id, vip_delay_hours, t)

\* whether is_vip_for_less_than_xh reaches datetime.now() (line 136)
ReadsClock(actual_vips, player_id) ==
    \E i \in 1..Len(actual_vips) :
        /\ actual_vips[i].player_id = player_id
        /\ actual_vips[i].vip_expiration /= Nothing

\* rcon.add_vip(player_id, combined_name, expiration): the game server keeps
\* one VIP entry per player, the new one replaces the old
add_vip(vips, player_id, description, expiration) ==
    SelectSeq(vips, LAMBDA item : item.player_id /= player_id)
        \o <<[player_id |-> player_id, name |-> description,
              vip_expiration |-> Some(expiration)]>>

\* f"{player_name} Top-Player"
CombinedName(player_name) == <<player_name, "Top-Player">>

\* CommanderGuard without the support test
CommanderGuardPlaytimeOnly(sample) ==
    /\ sample.role = "armycommander"
    /\ sample.offense + sample.defense < 20 * VIP_COMMANDER_MIN_PLAYTIME_MINS

\* the "entered at last second" commander test of get_top (lines 206-214)
CommanderGuard(sample) ==
    /\ sample.role = "armycommander"
    /\ \/ sample.offense + sample.defense < 20 * VIP_COMMANDER_MIN_PLAYTIME_MINS
       \/ sample.support < VIP_COMMANDER_MIN_SUPPORT_SCORE

\* GrantGuard without the seed limit test
GrantGuardNoSeedLimit(mode, args, config, players, iter) ==
    /\ mode = "matchend"
    /\ args.calltype = "player"
    /\ config.VIP_WINNERS > 0
    /\ config.VIP_HOURS > 0
    /\ args.second_data /= "kills"
    /\ iter <= config.VIP_WINNERS

\* GrantGuard without the test that excludes the ratio and killrate leaderboards
GrantGuardAnyMetric(mode, args, config, players, iter) ==
    /\ mode = "matchend"
    /\ args.calltype = "player"
    /\ config.VIP_WINNERS > 0
    /\ config.VIP_HOURS > 0
    /\ players >= config.SEED_LIMIT
    /\ iter <= config.VIP_WINNERS

\* the condition of "Give VIP to players" in get_top (lines 196-204)
GrantGuard(mode, args, config, players, iter) ==
    /\ mode = "matchend"
    /\ args.calltype = "player"
    /\ config.VIP_WINNERS > 0
    /\ config.VIP_HOURS > 0
    /\ players >= config.SEED_LIMIT
    /\ args.second_data /= "kills"
    /\ iter <= config.VIP_WINNERS

(***************************************************************************)
(* Leaderboard builder                                                     *)
(***************************************************************************)
tops_limit == IF callmode = "chat" THEN cfg.TOPS_CHAT ELSE cfg.TOPS_MATCHEND
show_members ==
    IF callmode = "chat" THEN cfg.TOPS_CHAT_DETAIL_SQUADS
    ELSE cfg.TOPS_MATCHEND_DETAIL_SQUADS

\* the names of the players of squadtype_allplayers in the squad sample_vip
best_players_names(squadtype_allplayers, sample_vip) ==
    LET mine == SelectSeq(squadtype_allplayers,
                    LAMBDA data : /\ data.team = sample_vip.team
                                  /\ data.unit_name = sample_vip.name)
    IN  [i \in 1..Len(mine) |-> mine[i].name]

\* the "Squad members" block of get_top (lines 181-193)
SquadMembers(args, sorted_list, allplayers, members, iter) ==
    IF args.calltype = "squad" /\ members > 0 /\ iter <= members
    THEN LET shown == Take(sorted_list, members)
         IN  [i \in 1..Len(shown) |->
                 RosterLine(best_players_names(allplayers, shown[i]))]
    ELSE <<>>

\* what get_top appends for a sample before the VIP block (lines 172-193)
SampleLines(args, sample, sorted_list, allplayers, members, iter) ==
    IF sortkey(args.sortkey, sample) /= 0
    THEN (IF args.fourth_data = ""
          THEN <<EntryLine(args.calltype = "squad", sample.name, sample.team,
                           <<sample[args.second_data], sample[args.third_data]>>)>>
          ELSE <<EntryLine(FALSE, sample.name, sample.team,
                           <<sortkey(args.sortkey, sample)>>)>>)
         \o SquadMembers(args, sorted_list, allplayers, members, iter)
    ELSE <<>>

Call(op, k, player_id, at, returned, less, expiration, pos) ==
    [op |-> op, board |-> k, player_id |-> player_id, at |-> at,
     returned |-> returned, less |-> less, expiration |-> expiration, pos |-> pos]


(***************************************************************************)
(* Report composer                                                         *)
(***************************************************************************)
Title(key) == <<HeaderLine("title", key), BlankLine>>
Section(key) == <<HeaderLine("section", key), BlankLine>>
Sub(key, top) == <<HeaderLine("metric", key)>> \o top \o <<BlankLine>>
When(cond, text) == IF cond THEN text ELSE <<>>

\* stats_display with the tankers header written for every squads block
stats_display_tankers(t) ==
    LET players == \E k \in 1..5 : Len(t[k]) /= 0
        infantry == \E k \in 2..5 : Len(t[k]) /= 0
        squads == \E k \in 6..9 : Len(t[k]) /= 0
        msg ==
            When(players,
                 Title("best_players")
                 \o When(Len(t[1]) /= 0,
                         Section("armycommander") \o Sub("combat + (support * ratio)", t[1]))
                 \o When(infantry,
                         Section("infantry")
                         \o When(Len(t[2]) /= 0, Sub("offense / defense", t[2]))
                         \o When(Len(t[3]) /= 0, Sub("combat / support", t[3]))
                         \o When(Len(t[4]) /= 0, Sub("ratio", t[4]))
                         \o When(Len(t[5]) /= 0, Sub("killrate", t[5]))))
            \o When(squads,
                 <<BlankLine>> \o Title("best_squads")
                 \o When(Len(t[6]) /= 0 \/ Len(t[7]) /= 0,
                         Section("infantry")
                         \o When(Len(t[6]) /= 0, Sub("offense / defense", t[6]))
                         \o When(Len(t[7]) /= 0, Sub("combat / support", t[7])))
                 \o Section("tankers")
                 \o When(Len(t[8]) /= 0, Sub("offense / defense", t[8]))
                 \o When(Len(t[9]) /= 0, Sub("combat / support", t[9])))
    IN  IF Len(msg) = 0 THEN NoStatsYet ELSE msg

\* stats_display(top_commanders_teamplay, ..., top_squads_armor_teamplay)
stats_display(t) ==
    LET players == \E k \in 1..5 : Len(t[k]) /= 0
        infantry == \E k \in 2..5 : Len(t[k]) /= 0
        squads == \E k \in 6..9 : Len(t[k]) /= 0
        msg ==
            When(players,
                 Title("best_players")
                 \o When(Len(t[1]) /= 0,
                         Section("armycommander") \o Sub("combat + (support * ratio)", t[1]))
                 \o When(infantry,
                         Section("infantry")
                         \o When(Len(t[2]) /= 0, Sub("offense / defense", t[2]))
                         \o When(Len(t[3]) /= 0, Sub("combat / support", t[3]))
                         \o When(Len(t[4]) /= 0, Sub("ratio", t[4]))
                         \o When(Len(t[5]) /= 0, Sub("killrate", t[5]))))
            \o When(squads,
                 <<BlankLine>> \o Title("best_squads")
                 \o When(Len(t[6]) /= 0 \/ Len(t[7]) /= 0,
                         Section("infantry")
                         \o When(Len(t[6]) /= 0, Sub("offense / defense", t[6]))
                         \o When(Len(t[7]) /= 0, Sub("combat / support", t[7])))
                 \o When(Len(t[8]) /= 0 \/ Len(t[9]) /= 0,
                         Section("tankers")
                         \o When(Len(t[8]) /= 0, Sub("offense / defense", t[8]))
                         \o When(Len(t[9]) /= 0, Sub("combat / support", t[9]))))
    IN  IF Len(msg) = 0 THEN NoStatsYet ELSE msg

(***************************************************************************)
(* The handlers, step by step                                              *)
(***************************************************************************)
\* stats_on_chat_command(rcon, struct_log) up to the call of stats_gather
stats_on_chat_command(server_number, sub_content, player_id) ==
    /\ pc = "idle"
    /\ IF /\ server_number \in ENABLE_ON_SERVERS
          /\ sub_content /= None
          /\ player_id /= None
          /\ sub_content = CHAT_COMMAND
       THEN /\ pc' = "gather"
            /\ callmode' = "chat"
            /\ chat_player' = player_id
       ELSE /\ pc' = "done"
            /\ UNCHANGED <<callmode, chat_player>>
    /\ UNCHANGED <<cfg, snapshot, current_players, ledger, connected, now, buckets,
                   board, sorted_data, idx, iteration, output, pending, tops,
                   message, all_players_list, bidx, calls, sent>>

\* stats_on_match_end(rcon, struct_log) up to the call of stats_gather
stats_on_match_end(server_number) ==
    /\ pc = "idle"
    /\ IF server_number \in ENABLE_ON_SERVERS
       THEN /\ pc' = "gather"
            /\ callmode' = "matchend"
       ELSE /\ pc' = "done"
            /\ UNCHANGED callmode
    /\ UNCHANGED <<cfg, snapshot, current_players, ledger, connected, now,
                   chat_player, buckets, board, sorted_data, idx, iteration, output,
                   pending, tops, message, all_players_list, bidx, calls, sent>>

\* stats_gather: the call of team_view_stats and the renaming of the squads
stats_gather ==
    /\ pc = "gather"
    /\ buckets' = team_view_stats(snapshot, 1)
    /\ board' = 1
    /\ pc' = "top"
    /\ UNCHANGED <<cfg, snapshot, current_players, ledger, connected, now, callmode,
                   chat_player, sorted_data, idx, iteration, output, pending, tops,
                   message, all_players_list, bidx, calls, sent>>

\* get_top: from the call to the first iteration of the loop
get_top ==
    /\ pc = "top"
    /\ sorted_data' = sorted(buckets[BoardArgs(board).data_bucket], BoardArgs(board).sortkey)
    /\ output' = <<>>
    /\ iteration' = 1
    /\ idx' = 1
    /\ pc' = "loop"
    /\ UNCHANGED <<cfg, snapshot, current_players, ledger, connected, now, callmode,
                   chat_player, buckets, board, pending, tops, message,
                   all_players_list, bidx, calls, sent>>

\* get_top: one iteration of "for sample in sorted_data[:tops_limit]", up to
\* the call of give_xh_vip if it makes one
get_top_iteration ==
    /\ pc = "loop"
    /\ idx <= Len(Take(sorted_data, tops_limit))
    /\ \E t \in now..MaxNow :
        LET args == BoardArgs(board)
            sample == sorted_data[idx]
            out == output \o SampleLines(args, sample, sorted_data,
                                         buckets[args.squadtype_allplayers],
                                         show_members, iteration)
            guard == GrantGuard(callmode, args, cfg, current_players, iteration)
            skip == guard /\ CommanderGuard(sample)
            check == guard /\ ~skip
            reads == check /\ ReadsClock(ledger, sample.player_id)
            less == is_vip_for_less_than_xh(ledger, sample.player_id, cfg.VIP_HOURS, t)
            asked == Call("get_vip_ids", board, sample.player_id,
                          IF reads THEN t ELSE now, ledger, less, Nothing, Len(out))
        IN  /\ now' = IF reads THEN t ELSE now
            /\ IF skip
               THEN /\ output' = out
                    /\ idx' = idx + 1
                    /\ UNCHANGED <<iteration, pending, calls, pc>>
               ELSE IF check /\ less
               THEN /\ output' = out
                    /\ pending' = Some(sample)
                    /\ calls' = Append(calls, asked)
                    /\ pc' = "give"
                    /\ UNCHANGED <<idx, iteration>>
               ELSE IF check
               THEN /\ output' = Append(out, AlreadyVipLine)
                    /\ calls' = Append(calls, asked)
                    /\ idx' = idx + 1
                    /\ iteration' = iteration + 1
                    /\ UNCHANGED <<pending, pc>>
               ELSE /\ output' = out
                    /\ idx' = idx + 1
                    /\ iteration' = iteration + 1
                    /\ UNCHANGED <<pending, calls, pc>>
    /\ UNCHANGED <<cfg, snapshot, current_players, ledger, connected, callmode,
                   chat_player, buckets, board, sorted_data, tops, message,
                   all_players_list, bidx, sent>>

\* give_xh_vip(rcon, player_id, player_name, hours_awarded) and the end of
\* the iteration of get_top that called it
give_xh_vip ==
    /\ pc = "give"
    /\ \E t \in now..MaxNow :
        LET now_plus_xh == t + cfg.VIP_HOURS * HourTicks
            now_plus_xh_vip_formatted == FormatIso(now_plus_xh)
        IN  /\ now' = t
            /\ ledger' = add_vip(ledger, pending[1].player_id, CombinedName(pending[1].name),
                                 now_plus_xh_vip_formatted)
            /\ calls' = Append(calls, Call("add_vip", board, pending[1].player_id, t, ledger,
                                           TRUE, Some(now_plus_xh_vip_formatted), Len(output)))
            /\ output' = Append(output, VipUntilLine(LocalDisplay(now_plus_xh)))
    /\ idx' = idx + 1
    /\ iteration' = iteration + 1
    /\ pc' = "loop"
    /\ UNCHANGED <<cfg, snapshot, current_players, connected, callmode, chat_player,
                   buckets, board, sorted_data, pending, tops, message,
                   all_players_list, bidx, sent>>

\* get_top: "return output", and the next call of stats_gather
get_top_return ==
    /\ pc = "loop"
    /\ idx > Len(Take(sorted_data, tops_limit))
    /\ tops' = [tops EXCEPT ![board] = output]
    /\ IF board < NumBoards
       THEN /\ board' = board + 1
            /\ pc' = "top"
       ELSE /\ pc' = "display"
            /\ UNCHANGED board
    /\ UNCHANGED <<cfg, snapshot, current_players, ledger, connected, now, callmode,
                   chat_player, buckets, sorted_data, idx, iteration, output, pending,
                   message, all_players_list, bidx, calls, sent>>

\* the call of stats_display in both handlers
compose ==
    /\ pc = "display"
    /\ message' = stats_display(tops)
    /\ pc' = "send"
    /\ UNCHANGED <<cfg, snapshot, current_players, ledger, connected, now, callmode,
                   chat_player, buckets, board, sorted_data, idx, iteration, output,
                   pending, tops, all_players_list, bidx, calls, sent>>

\* stats_on_chat_command: rcon.message_player(player_id=player_id, ...),
\* outside any try: an exception it raises leaves the handler
chat_reply ==
    /\ pc = "send"
    /\ callmode = "chat"
    /\ \E ok \in BOOLEAN :
        /\ sent' = Append(sent, [player_id |-> chat_player, ok |-> ok])
        /\ pc' = IF ok THEN "done" ELSE "raised"
    /\ UNCHANGED <<cfg, snapshot, current_players, ledger, connected, now, callmode,
                   chat_player, buckets, board, sorted_data, idx, iteration, output,
                   pending, tops, message, all_players_list, bidx, calls>>

\* stats_on_match_end: "if message != nostatsyet: message_all_players(...)",
\* up to rcon.get_playerids()
match_end_broadcast ==
    /\ pc = "send"
    /\ callmode = "matchend"
    /\ IF message /= NoStatsYet
       THEN /\ all_players_list' = connected
            /\ bidx' = 1
            /\ pc' = "broadcast"
       ELSE /\ pc' = "done"
            /\ UNCHANGED <<all_players_list, bidx>>
    /\ UNCHANGED <<cfg, snapshot, current_players, ledger, connected, now, callmode,
                   chat_player, buckets, board, sorted_data, idx, iteration, output,
                   pending, tops, message, calls, sent>>

\* message_all_players with the try inside out: an exception ends the loop
message_all_players_aborting ==
    /\ pc = "broadcast"
    /\ bidx <= Len(all_players_list)
    /\ \E ok \in BOOLEAN :
        /\ sent' = Append(sent, [player_id |-> all_players_list[bidx], ok |-> ok])
        /\ bidx' = IF ok THEN bidx + 1 ELSE Len(all_players_list) + 1
    /\ UNCHANGED <<cfg, snapshot, current_players, ledger, connected, now, pc, callmode,
                   chat_player, buckets, board, sorted_data, idx, iteration, output,
                   pending, tops, message, all_players_list, calls>>

\* message_all_players: one iteration of "for player in all_players_list",
\* the exception of rcon.message_player caught and dropped
message_all_players ==
    /\ pc = "broadcast"
    /\ bidx <= Len(all_players_list)
    /\ \E ok \in BOOLEAN :
        sent' = Append(sent, [player_id |-> all_players_list[bidx], ok |-> ok])
    /\ bidx' = bidx + 1
    /\ UNCHANGED <<cfg, snapshot, current_players, ledger, connected, now, pc, callmode,
                   chat_player, buckets, board, sorted_data, idx, iteration, output,
                   pending, tops, message, all_players_list, calls>>

\* message_all_players: the end of the loop, and of the handler
message_all_players_return ==
    /\ pc = "broadcast"
    /\ bidx > Len(all_players_list)
    /\ pc' = "done"
    /\ UNCHANGED <<cfg, snapshot, current_players, ledger, connected, now, callmode,
                   chat_player, buckets, board, sorted_data, idx, iteration, output,
                   pending, tops, message, all_players_list, bidx, calls, sent>>


(***************************************************************************)
(* The inputs the model draws                                              *)
(***************************************************************************)
PlayerIds == <<"id1", "id2", "id3", "id4", "id5">>
PlayerNames == <<"Ann", "Bob", "Cid", "Dan", "Eve">>

\* the six counters of a stat record
Stats(kills, deaths, combat, offense, defense, support) ==
    [kills |-> kills, deaths |-> deaths, combat |-> combat,
     offense |-> offense, defense |-> defense, support |-> support]

\* infantry: "top" and "tie" score the same in every metric, "low" scores 0
\* in offense * defense, "mid" scores 0 in both rates, "zero" scores 0 everywhere
Profile(p) ==
    CASE p = "top"  -> Stats(3, 1, 50, 20, 20, 10)
      [] p = "low"  -> Stats(1, 30, 10, 0, 20, 0)
      [] p = "mid"  -> Stats(0, 2, 0, 30, 10, 4)
      [] p = "zero" -> Stats(0, 0, 0, 0, 0, 0)
      \* commanders: "lead" passes both tests of the commander guard, "late"
      \* played 39 minutes, "idle" has 1999 support points, both outscore "lead"
      [] p = "lead" -> Stats(2, 1, 50, 400, 400, 2000)
      [] p = "late" -> Stats(2, 1, 50, 400, 380, 2500)
      [] p = "idle" -> Stats(2, 1, 900, 400, 400, 1999)

Player(player_id, name, team, role, unit_name, st) ==
    [player_id |-> player_id, name |-> name, team |-> team, role |-> role,
     unit_name |-> unit_name, kills |-> st.kills, deaths |-> st.deaths,
     combat |-> st.combat, offense |-> st.offense, defense |-> st.defense,
     support |-> st.support]

RECURSIVE SumOf(_, _)
SumOf(players, field) ==
    IF players = <<>> THEN 0 ELSE Head(players)[field] + SumOf(Tail(players), field)

\* a squad of the snapshot: its counters are the sums of its players'
Squad(name, type, players) ==
    [name |-> name, type |-> type, players |-> players,
     kills |-> SumOf(players, "kills"), deaths |-> SumOf(players, "deaths"),
     combat |-> SumOf(players, "combat"), offense |-> SumOf(players, "offense"),
     defense |-> SumOf(players, "defense"), support |-> SumOf(players, "support")]

\* the squads a player can be in: (team, squad name)
Slots == <<[team |-> "allies", name |-> "able"],
           [team |-> "axis", name |-> "able"],
           [team |-> "allies", name |-> "baker"]>>

\* the team view of `team` when the i-th player of the game is in squad
\* Slots[place[i].slot] with the stats of profile place[i].prof, the squads
\* have the types of `types`, and the commander the profile `commander`
TeamView(team, place, types, commander) ==
    LET everyone == [i \in 1..Len(place) |->
                        Player(PlayerIds[i], PlayerNames[i], Slots[place[i].slot].team,
                               "rifleman", Slots[place[i].slot].name,
                               Profile(place[i].prof))]
        members(s) == SelectSeq(everyone,
                          LAMBDA q : q.team = Slots[s].team /\ q.unit_name = Slots[s].name)
        squad(s) == IF Slots[s].team = team /\ members(s) /= <<>>
                    THEN <<Squad(Slots[s].name, types[s], members(s))>>
                    ELSE <<>>
    IN  [commander |->
             IF commander = None THEN Nothing
             ELSE Some(Player(IF team = "allies" THEN "idA" ELSE "idX",
                         IF team = "allies" THEN "Abe" ELSE "Xan",
                         team, "armycommander", None, Profile(commander))),
         squads |-> squad(1) \o squad(2) \o squad(3)]

Snapshot(place, types, commanders) ==
    [allies |-> TeamView("allies", place, types, commanders[1]),
     axis |-> TeamView("axis", place, types, commanders[2])]

\* where the players can be: up to MaxPlayers players, each in one of the
\* squads `slots` with one of the profiles `profs`
Places(slots, profs) ==
    UNION {[1..n -> {[slot |-> sl, prof |-> pr] : sl \in slots, pr \in profs}] :
               n \in 0..MaxPlayers}

AllInfantry == <<"infantry", "infantry", "infantry">>
Mixed == <<"infantry", "armor", "recon">>
Unranked == <<"armor", "infantry", "artillery">>

\* a VIP list: the players of `ids`, each with no entry, a VIP that never
\* expires, or one that expires 5 hours, 14 hours and a second, or 20 hours
\* after the handler started
VipEntry(player_id, state) ==
    IF state = "absent" THEN <<>>
    ELSE <<[player_id |-> player_id, name |-> <<player_id>>,
            vip_expiration |->
                CASE state = "permanent" -> Nothing
                  [] state = "soon" -> Some(5 * 3600)
                  [] state = "edge" -> Some(14 * 3600 + 1)
                  [] state = "late" -> Some(20 * 3600)]>>

VipStates == {"absent", "permanent", "soon", "edge", "late"}

\* the configuration as the source sets it (lines 52-91)
DefaultCfg ==
    [TOPS_CHAT |-> 3, TOPS_CHAT_DETAIL_SQUADS |-> 0, TOPS_MATCHEND |-> 3,
     TOPS_MATCHEND_DETAIL_SQUADS |-> 1, VIP_WINNERS |-> 1, SEED_LIMIT |-> 70,
     VIP_HOURS |-> 14]

\* the lists rcon.get_playerids() can return: up to MaxConnected players
ConnectedLists ==
    {list \in UNION {[1..n -> {PlayerIds[i] : i \in 1..MaxConnected}] : n \in 0..MaxConnected} :
        \A i, j \in 1..Len(list) : list[i] = list[j] => i = j}

InitWith(configs, snapshots, counts, vips, lists) ==
    /\ cfg \in configs
    /\ snapshot \in snapshots
    /\ current_players \in counts
    /\ ledger \in vips
    /\ connected \in lists
    /\ now = 0
    /\ pc = "idle"
    /\ callmode = ""
    /\ chat_player = None
    /\ buckets = [all_commanders |-> <<>>, all_players_infantry |-> <<>>,
                  all_players_armor |-> <<>>, all_squads_infantry |-> <<>>,
                  all_squads_armor |-> <<>>]
    /\ board = 1
    /\ sorted_data = <<>>
    /\ idx = 1
    /\ iteration = 1
    /\ output = <<>>
    /\ pending = Nothing
    /\ tops = [k \in 1..NumBoards |-> <<>>]
    /\ message = <<>>
    /\ all_players_list = <<>>
    /\ bidx = 1
    /\ calls = <<>>
    /\ sent = <<>>

\* ranking: every player in one infantry squad, every size limit in both modes
InitRanking ==
    InitWith({[DefaultCfg EXCEPT !.TOPS_CHAT = n, !.TOPS_MATCHEND = (n % MaxPlayers) + 1,
                                 !.SEED_LIMIT = 0] : n \in 1..MaxPlayers},
             {Snapshot(place, AllInfantry, <<None, None>>) :
                  place \in Places({1}, {"top", "low", "mid"})},
             {70}, {<<>>}, {<<>>})

\* squads: the players spread over three infantry squads, any squad-detail depth
InitSquads ==
    InitWith({[DefaultCfg EXCEPT !.TOPS_CHAT_DETAIL_SQUADS = d,
                                 !.TOPS_MATCHEND_DETAIL_SQUADS = d, !.TOPS_MATCHEND = m] :
                  d \in 0..2, m \in {1, 3}},
             {Snapshot(place, AllInfantry, <<None, None>>) :
                  place \in Places({1, 2, 3}, {"top"})},
             {70}, {<<>>}, {<<>>})

\* squads that score 0: the players spread over two squads of the same name
InitSquadScores ==
    InitWith({[DefaultCfg EXCEPT !.TOPS_CHAT_DETAIL_SQUADS = d,
                                 !.TOPS_MATCHEND_DETAIL_SQUADS = d] : d \in 1..2},
             {Snapshot(place, AllInfantry, <<None, None>>) :
                  place \in Places({1, 2}, {"top", "zero"})},
             {70}, {<<>>}, {<<>>})

\* squad types: infantry, recon, armor and unranked squads
InitSquadTypes ==
    InitWith({[DefaultCfg EXCEPT !.TOPS_CHAT_DETAIL_SQUADS = 1]},
             {Snapshot(place, types, <<None, None>>) :
                  place \in Places({1, 2, 3}, {"top"}),
                  types \in {Mixed, Unranked}},
             {70}, {<<>>}, {<<>>})

\* commanders: any two commanders, one or two awards and places
InitCommanders ==
    InitWith({[DefaultCfg EXCEPT !.VIP_WINNERS = w, !.TOPS_MATCHEND = m] :
                  w \in 1..2, m \in 1..2},
             {Snapshot(<<>>, AllInfantry, <<a, x>>) :
                  a \in {None, "lead", "late", "idle", "zero"},
                  x \in {None, "lead", "late", "idle"}},
             {70}, {VipEntry("idX", s1) : s1 \in {"absent", "late"}}, {<<>>})

\* VIP lists: any VIP of the first player, one or two awards
InitVips ==
    InitWith({[DefaultCfg EXCEPT !.VIP_WINNERS = w] : w \in 1..2},
             {Snapshot(place, AllInfantry, <<None, None>>) :
                  place \in Places({1}, {"top", "low"})},
             {70},
             {VipEntry("id1", s1) \o VipEntry("id2", s2) :
                  s1 \in VipStates, s2 \in {"absent", "soon"}},
             {<<>>})

\* grant settings: any award count, duration, seed limit and player count
InitGrants ==
    InitWith({[DefaultCfg EXCEPT !.VIP_WINNERS = w, !.VIP_HOURS = h, !.SEED_LIMIT = sl] :
                  w \in 0..2, h \in {0, 14}, sl \in {0, 70}},
             {Snapshot(place, AllInfantry, <<"lead", None>>) :
                  place \in Places({1}, {"top"})},
             {65, 70}, {VipEntry("id1", s1) : s1 \in {"absent", "late"}}, {<<>>})

\* messages: any list of connected players
InitMessages ==
    InitWith({DefaultCfg},
             {Snapshot(place, AllInfantry, <<None, None>>) :
                  place \in Places({1}, {"top"})},
             {70}, {<<>>}, ConnectedLists)

Init ==
    \/ InitRanking
    \/ InitSquads
    \/ InitSquadScores
    \/ InitSquadTypes
    \/ InitCommanders
    \/ InitVips
    \/ InitGrants
    \/ InitMessages

Next ==
    \/ \E server_number \in {"1", "2"}, sub_content \in {None, CHAT_COMMAND, "!vip"},
          player_id \in {None, PlayerIds[1]} :
           stats_on_chat_command(server_number, sub_content, player_id)
    \/ \E server_number \in {"1", "2"} : stats_on_match_end(server_number)
    \/ stats_gather
    \/ get_top
    \/ get_top_iteration
    \/ give_xh_vip
    \/ get_top_return
    \/ compose
    \/ chat_reply
    \/ match_end_broadcast
    \/ message_all_players
    \/ message_all_players_return

Spec == Init /\ [][Next]_vars

(***************************************************************************)
(* The report composer on its own                                          *)
(***************************************************************************)
\* what get_top can return for board k: nothing (shape 0), a leaderboard
\* line (shape 1), or, for the two boards that award VIPs, a leaderboard line
\* and a grant line (shape 2)
Leaderboard(k, shape) ==
    LET entry == EntryLine(k >= 6, PlayerNames[1], "allies", <<k>>) IN
    CASE shape = 0 -> <<>>
      [] shape = 1 -> <<entry>>
      [] shape = 2 -> <<entry, AlreadyVipLine>>
Shapes ==
    {s \in [1..NumBoards -> 0..2] : \A k \in 1..NumBoards : s[k] = 2 => k \in 2..3}

\* stats_gather has returned any nine leaderboards
InitDisplay ==
    /\ cfg = DefaultCfg
    /\ snapshot = Snapshot(<<>>, AllInfantry, <<None, None>>)
    /\ current_players = 70
    /\ ledger = <<>>
    /\ connected = <<>>
    /\ now = 0
    /\ pc = "display"
    /\ callmode \in {"chat", "matchend"}
    /\ chat_player = IF callmode = "chat" THEN PlayerIds[1] ELSE None
    /\ buckets = team_view_stats(snapshot, 1)
    /\ board = NumBoards
    /\ sorted_data = <<>>
    /\ idx = 1
    /\ iteration = 1
    /\ output = <<>>
    /\ pending = Nothing
    /\ tops \in {[k \in 1..NumBoards |-> Leaderboard(k, s[k])] : s \in Shapes}
    /\ message = <<>>
    /\ all_players_list = <<>>
    /\ bidx = 1
    /\ calls = <<>>
    /\ sent = <<>>

NextDisplay == compose

SpecDisplay == InitDisplay /\ [][NextDisplay]_vars


(***************************************************************************)
(* What the claims speak of                                                *)
(***************************************************************************)
\* stats_gather has returned
Gathered == callmode /= "" /\ pc \in {"display", "send", "broadcast", "done", "raised"}
\* the k-th get_top call has returned
BoardDone(k) == Gathered \/ (pc \in {"top", "loop", "give"} /\ k < board)
\* the k-th get_top call has just returned: tops[k] is what it returned
Returned(k) == (pc = "top" /\ board = k + 1) \/ (pc = "display" /\ k = NumBoards)
\* the text the k-th get_top call has built so far
Out(k) ==
    IF BoardDone(k) THEN tops[k]
    ELSE IF pc \in {"loop", "give"} /\ k = board THEN output
    ELSE <<>>
Bucket(k) == buckets[BoardArgs(k).data_bucket]
Score(k, r) == sortkey(BoardArgs(k).sortkey, r)
IsGrantLine(line) == line.kind \in {"vip_until", "already_vip"}
IsEntryOf(line, r) == line.kind = "entry" /\ line.name = r.name /\ line.team = r.team
AwardTicks == cfg.VIP_HOURS * HourTicks
\* the VIP entries of a player in a VIP list
EntriesOf(vips, player_id) == SelectSeq(vips, LAMBDA item : item.player_id = player_id)

\* C1: a record whose metric score is exactly 0 gets no leaderboard line and
\* the grant engine is not attempted for it (add_vip is not called for it
\* and no 'already VIP' line is written for it), in any mode and at any rank.
C1_ZeroScoreNoLineNoGrant ==
    \A k \in 1..NumBoards : \A i \in 1..Len(Bucket(k)) :
        LET r == Bucket(k)[i] IN
        Score(k, r) = 0 =>
            /\ \A j \in 1..Len(Out(k)) : ~IsEntryOf(Out(k)[j], r)
            /\ BoardArgs(k).calltype = "player" =>
                   \A j \in 1..Len(calls) :
                       ~(/\ calls[j].board = k
                         /\ calls[j].player_id = r.player_id
                         /\ calls[j].op = "add_vip" \/ ~calls[j].less)

\* C2: when the existing-grant check is reached for a player whose VIP never
\* expires or expires later than now + the award duration, the 'already VIP'
\* line is written and add_vip is not called: a VIP is never replaced by one
\* that expires earlier.
C2_LongVipIsKept ==
    \A j \in 1..Len(calls) :
        LET c == calls[j]
            mine == EntriesOf(c.returned, c.player_id)
        IN  (/\ c.op = "get_vip_ids"
             /\ mine /= <<>>
             /\ \/ mine[1].vip_expiration = Nothing
                \/ /\ mine[1].vip_expiration /= Nothing
                   /\ fromisoformat(mine[1].vip_expiration[1]) > c.at + AwardTicks)
            => /\ Len(Out(c.board)) > c.pos
               /\ Out(c.board)[c.pos + 1] = AlreadyVipLine
               /\ j < Len(calls) => calls[j + 1].op /= "add_vip"


\* the existing-grant checks that found no VIP of the player, or one that
\* expires sooner than now + the award duration
ShortVipSeen(c) ==
    LET mine == EntriesOf(c.returned, c.player_id) IN
    /\ c.op = "get_vip_ids"
    /\ \/ mine = <<>>
       \/ /\ mine /= <<>>
          /\ mine[1].vip_expiration /= Nothing
          /\ fromisoformat(mine[1].vip_expiration[1]) < c.at + AwardTicks

\* give_xh_vip has been called after check j and has not returned
GrantPending(j) == j = Len(calls) /\ pc = "give"
\* the add_vip call and the 'VIP until' line that follow check j
GrantMade(j) ==
    LET c == calls[j] IN
       /\ j < Len(calls)
       /\ calls[j + 1].op = "add_vip"
       /\ calls[j + 1].player_id = c.player_id
       /\ calls[j + 1].expiration = Some(FormatIso(calls[j + 1].at + AwardTicks))
       /\ j + 1 < Len(calls) =>
              ~(calls[j + 2].op = "add_vip" /\ calls[j + 2].player_id = c.player_id)
       /\ Len(Out(c.board)) > c.pos
       /\ Out(c.board)[c.pos + 1] = VipUntilLine(LocalDisplay(calls[j + 1].at + AwardTicks))

\* C3: when the existing-grant check is reached for a player with no VIP, or
\* one that expires sooner than now + the award duration, add_vip is called
\* exactly once for the player with expiration now + the award duration, and
\* the 'VIP until' line is written right after the player's leaderboard line
\* (and no 'already VIP' line).
C3_ShortVipIsRenewed ==
    \A j \in 1..Len(calls) :
        ShortVipSeen(calls[j]) =>
            \/ GrantPending(j)
            \/ /\ GrantMade(j)
               /\ calls[j].pos >= 1
               /\ \E i \in 1..Len(Bucket(calls[j].board)) :
                      /\ Bucket(calls[j].board)[i].player_id = calls[j].player_id
                      /\ IsEntryOf(Out(calls[j].board)[calls[j].pos],
                                   Bucket(calls[j].board)[i])

\* what holds of C3 whatever the score of the player: the call and the line
C3_ShortVipGrantMade ==
    \A j \in 1..Len(calls) : ShortVipSeen(calls[j]) => GrantPending(j) \/ GrantMade(j)


\* the records of board k in the order of the claims: descending by score,
\* records of equal score in the order of the snapshot
RankOf(k, i) ==
    1 + Cardinality({j \in 1..Len(Bucket(k)) : Score(k, Bucket(k)[j]) > Score(k, Bucket(k)[i])})
      + Cardinality({j \in 1..(i - 1) : Score(k, Bucket(k)[j]) = Score(k, Bucket(k)[i])})
Ranked(k) ==
    [p \in 1..Len(Bucket(k)) |->
        Bucket(k)[CHOOSE i \in 1..Len(Bucket(k)) : RankOf(k, i) = p]]
\* the leaderboard line of a record of board k
EntryOf(k, r) ==
    IF BoardArgs(k).fourth_data = ""
    THEN EntryLine(BoardArgs(k).calltype = "squad", r.name, r.team,
                   <<r[BoardArgs(k).second_data], r[BoardArgs(k).third_data]>>)
    ELSE EntryLine(FALSE, r.name, r.team, <<Score(k, r)>>)
\* the leaderboard lines of board k: the non-zero records among the first
\* `limit` ranked ones
RankedEntries(k) ==
    LET first == SelectSeq(Take(Ranked(k), tops_limit), LAMBDA r : Score(k, r) /= 0)
    IN  [p \in 1..Len(first) |-> EntryOf(k, first[p])]
EntryLinesOf(text) == SelectSeq(text, LAMBDA line : line.kind = "entry")
GrantLinesOf(text) == SelectSeq(text, LAMBDA line : IsGrantLine(line))

\* the population gate is closed
Gated == callmode = "matchend" /\ cfg.SEED_LIMIT /= 0 /\ current_players < cfg.SEED_LIMIT
\* the records of board k the commander test does not exclude, by the
\* numbers of the claim: a commander with (offense + defense) / 20 below the
\* minimum playtime or support below the minimum support is excluded
TooShortCommander(r) ==
    /\ r.role = "armycommander"
    /\ \/ r.offense + r.defense < 20 * 40
       \/ r.support < 2000
Candidates(k) == SelectSeq(Take(Ranked(k), tops_limit), LAMBDA r : ~TooShortCommander(r))
ChecksOf(k) == SelectSeq(calls, LAMBDA c : c.op = "get_vip_ids" /\ c.board = k)

\* C4: at match end with fewer players than a non-zero seed limit, no rcon
\* call of the grant engine is made and no grant line is written, and every
\* leaderboard holds exactly the lines it holds without the gate (for a
\* player leaderboard, its ranked entries and nothing else); a seed limit of
\* 0 blocks nothing: the first candidate of a grant-eligible leaderboard is
\* checked whatever the player count.
C4_SeedLimitGate ==
    /\ Gated =>
          /\ calls = <<>>
          /\ \A k \in 1..NumBoards :
                /\ GrantLinesOf(Out(k)) = <<>>
                /\ BoardDone(k) =>
                      /\ EntryLinesOf(Out(k)) = RankedEntries(k)
                      /\ BoardArgs(k).calltype = "player" => Out(k) = RankedEntries(k)
    /\ (/\ callmode = "matchend"
        /\ cfg.SEED_LIMIT = 0
        /\ cfg.VIP_WINNERS > 0
        /\ cfg.VIP_HOURS > 0) =>
          \A k \in 1..3 : (Returned(k) /\ Candidates(k) /= <<>>) => ChecksOf(k) /= <<>>

\* a match end behind the gate (65 players, seed limit 70) has ended with a
\* non-empty infantry leaderboard that would have given a VIP
C4_Witness ==
    /\ pc = "done"
    /\ Gated
    /\ current_players = 65
    /\ cfg.VIP_WINNERS > 0
    /\ cfg.VIP_HOURS > 0
    /\ tops[2] /= <<>>
    /\ Candidates(2) /= <<>>

\* C5: at match end a commander below the minimum playtime or the minimum
\* support gets no rcon call of the grant engine and no grant line, whatever
\* the rank, and takes no award slot: the engine is reached for exactly the
\* first VIP_WINNERS of the other entries within the size limit, in order.
C5_CommanderGuard ==
    /\ \A j \in 1..Len(calls) : \A i \in 1..Len(Bucket(calls[j].board)) :
           calls[j].player_id = Bucket(calls[j].board)[i].player_id
               => ~TooShortCommander(Bucket(calls[j].board)[i])
    /\ \A k \in 1..3 :
        (/\ callmode = "matchend"
         /\ Returned(k)
         /\ cfg.VIP_WINNERS > 0
         /\ cfg.VIP_HOURS > 0
         /\ ~Gated) =>
            LET winners == Take(Candidates(k), cfg.VIP_WINNERS)
                checks == ChecksOf(k)
            IN  /\ Len(checks) = Len(winners)
                /\ \A i \in 1..Len(checks) : checks[i].player_id = winners[i].player_id
                /\ Len(GrantLinesOf(tops[k])) = Len(winners)

\* the top commander was excluded and the second one, inside the size limit,
\* got the only award
C5_Witness ==
    /\ pc = "done"
    /\ callmode = "matchend"
    /\ cfg.VIP_WINNERS = 1
    /\ Len(Bucket(1)) = 2
    /\ TooShortCommander(Ranked(1)[1])
    /\ ~TooShortCommander(Ranked(1)[2])
    /\ \E j \in 1..Len(calls) :
           /\ calls[j].op = "add_vip"
           /\ calls[j].board = 1
           /\ calls[j].player_id = Ranked(1)[2].player_id

\* C6: rcon calls of the grant engine and grant lines only come from a
\* match-end call of get_top for a player leaderboard whose metric is neither
\* ratio nor killrate, with VIP_WINNERS > 0 and VIP_HOURS > 0: never from a
\* chat command, a squad leaderboard, or the ratio and killrate leaderboards.
GrantBoard(k) ==
    /\ callmode = "matchend"
    /\ BoardArgs(k).calltype = "player"
    /\ BoardArgs(k).sortkey \notin {"ratio", "killrate"}
    /\ cfg.VIP_WINNERS > 0
    /\ cfg.VIP_HOURS > 0
C6_GrantsOnlyAtMatchEnd ==
    /\ \A j \in 1..Len(calls) : GrantBoard(calls[j].board)
    /\ \A k \in 1..NumBoards : GrantLinesOf(Out(k)) /= <<>> => GrantBoard(k)
    /\ (pc = "give" \/ pending /= Nothing) => callmode = "matchend"

\* a match end has given a VIP and its ratio and killrate leaderboards and a
\* squad leaderboard have lines
C6_Witness ==
    /\ pc = "done"
    /\ callmode = "matchend"
    /\ \E j \in 1..Len(calls) : calls[j].op = "add_vip"
    /\ tops[4] /= <<>>
    /\ tops[5] /= <<>>
    /\ tops[6] /= <<>>

\* C7: the entry lines of a leaderboard are exactly the non-zero records
\* among the first `limit` records of the bucket sorted descending by the
\* metric, in that order, records of equal score in the order of the snapshot.
C7_RankedEntries ==
    \A k \in 1..NumBoards : Returned(k) => EntryLinesOf(tops[k]) = RankedEntries(k)

\* two players with the same score and a third with a lower one, limit 2:
\* the lines are the two of the tie, in the order of the snapshot
C7_Witness ==
    /\ Gathered
    /\ tops_limit = 2
    /\ Len(Bucket(2)) = 3
    /\ Score(2, Bucket(2)[1]) = 0
    /\ Score(2, Bucket(2)[2]) = Score(2, Bucket(2)[3])
    /\ Score(2, Bucket(2)[2]) > 0
    /\ tops[4] = <<EntryOf(4, Bucket(2)[2]), EntryOf(4, Bucket(2)[3])>>
    /\ EntryLinesOf(tops[2]) = <<EntryOf(2, Bucket(2)[2]), EntryOf(2, Bucket(2)[3])>>


\* the players of the all-players bucket of board k in the squad sq
MembersOf(k, sq) ==
    LET mine == SelectSeq(buckets[BoardArgs(k).squadtype_allplayers],
                    LAMBDA q : q.team = sq.team /\ q.unit_name = sq.name)
    IN  [i \in 1..Len(mine) |-> mine[i].name]
\* the text of squad leaderboard k from rank p on: the line of each non-zero
\* squad, followed by the line of its own members if it is ranked among the
\* first show_members
RECURSIVE SquadText(_, _)
SquadText(k, p) ==
    IF p > Len(Take(Ranked(k), tops_limit)) THEN <<>>
    ELSE LET sq == Ranked(k)[p] IN
         (IF Score(k, sq) = 0 THEN <<>>
          ELSE <<EntryOf(k, sq)>>
               \o (IF show_members > 0 /\ p <= show_members
                   THEN <<RosterLine(MembersOf(k, sq))>> ELSE <<>>))
         \o SquadText(k, p + 1)

\* C8: in a squad leaderboard each squad line among the first show_members
\* ranked entries is followed by exactly one roster line, the names of the
\* players of the all-players bucket with the squad's own team and name;
\* later squads, zero-scoring squads, and every squad when show_members is 0
\* get no roster line.
C8_OwnRosterOnly ==
    \A k \in 6..NumBoards : Returned(k) => tops[k] = SquadText(k, 1)

\* C9: a failure of rcon.message_player never leaves a handler: neither the
\* chat command handler nor the match end handler ends with an exception.
C9_DeliveryFailureContained == pc /= "raised"

\* the players rcon.message_player was called for, in order
Recipients == [i \in 1..Len(sent) |-> sent[i].player_id]

\* C10: a broadcast calls rcon.message_player for every player of
\* rcon.get_playerids(), once each and in the order of the list, whatever
\* calls failed before: a failure neither ends the loop nor is retried.
C10_BroadcastReachesAll ==
    callmode = "matchend" =>
        /\ pc = "broadcast" =>
               /\ all_players_list = connected
               /\ Recipients = Take(connected, bidx - 1)
        /\ (pc = "done" /\ message /= NoStatsYet) => Recipients = connected
        /\ pc /= "raised"
        /\ message = NoStatsYet => sent = <<>>

\* a broadcast to two players has ended, the first delivery failed and the
\* second was made
C10_Witness ==
    /\ pc = "done"
    /\ callmode = "matchend"
    /\ Len(connected) = 2
    /\ Len(sent) = 2
    /\ ~sent[1].ok
    /\ sent[2].ok

(***************************************************************************)
(* The report composer                                                     *)
(***************************************************************************)
\* stats_display has returned
Composed == callmode /= "" /\ pc \in {"send", "broadcast", "done", "raised"}
\* the leaderboards that are not empty
Full == {k \in 1..NumBoards : tops[k] /= <<>>}
\* text is a part of msg, lines in a row
Appears(text, msg) ==
    \E i \in 0..(Len(msg) - Len(text)) : SubSeq(msg, i + 1, i + Len(text)) = text
\* how many times a line occurs in msg
Count(line, msg) == Cardinality({i \in 1..Len(msg) : msg[i] = line})
\* how many lines of a kind msg has
CountKind(kind, msg) == Cardinality({i \in 1..Len(msg) : msg[i].kind = kind})
\* 1 if one of the leaderboards ks is not empty, else 0
Some1(ks) == IF ks \cap Full /= {} THEN 1 ELSE 0

\* C11: stats_display returns the 'no stats yet' text if and only if all
\* nine leaderboards are empty; otherwise it returns a non-empty report that
\* is not the 'no stats yet' text, in which every non-empty leaderboard
\* appears whole, and in which a title, a subsection header or a metric
\* header is written only for a group with a non-empty leaderboard: once for
\* each such group and never for a group whose leaderboards are all empty.
C11_ReportStructure ==
    Composed =>
        /\ (message = NoStatsYet) <=> (Full = {})
        /\ Full /= {} =>
               /\ message /= <<>>
               /\ CountKind("nostatsyet", message) = 0
               /\ \A k \in Full : Appears(tops[k], message)
               /\ Count(HeaderLine("title", "best_players"), message) = Some1(1..5)
               /\ Count(HeaderLine("title", "best_squads"), message) = Some1(6..9)
               /\ Count(HeaderLine("section", "armycommander"), message) = Some1({1})
               /\ Count(HeaderLine("section", "infantry"), message)
                      = Some1(2..5) + Some1(6..7)
               /\ Count(HeaderLine("section", "tankers"), message) = Some1(8..9)
               /\ CountKind("title", message) = Some1(1..5) + Some1(6..9)
               /\ CountKind("section", message)
                      = Some1({1}) + Some1(2..5) + Some1(6..7) + Some1(8..9)
               /\ CountKind("metric", message) = Cardinality(Full)

\* a report was composed from an infantry player leaderboard and an infantry
\* squad leaderboard alone: no commander and no armor leaderboard has text
C11_Witness ==
    /\ Composed
    /\ Full = {2, 6}
    /\ Count(HeaderLine("section", "infantry"), message) = 2
    /\ Count(HeaderLine("section", "tankers"), message) = 0
(***************************************************************************)
(* One grant per player                                                    *)
(***************************************************************************)
\* call j is an add_vip call for a player with a leaderboard line: a record
\* of the bucket of its board with a score that is not 0
GrantOfRanked(j) ==
    /\ calls[j].op = "add_vip"
    /\ \E i \in 1..Len(Bucket(calls[j].board)) :
           /\ Bucket(calls[j].board)[i].player_id = calls[j].player_id
           /\ Score(calls[j].board, Bucket(calls[j].board)[i]) /= 0

\* C12: within one match end invocation add_vip is called at most once for
\* a player: when the same player is first in both infantry leaderboards that
\* award VIPs (offense/defense and combat/support), the check of the second
\* leaderboard reads the VIP list with the grant just made and answers
\* 'already VIP', so no second add_vip call follows.
C12_OneGrantPerPlayer ==
    callmode = "matchend" =>
        \A i, j \in 1..Len(calls) :
            (i < j /\ GrantOfRanked(i) /\ GrantOfRanked(j))
                => calls[i].player_id /= calls[j].player_id

====
